---- MODULE Spec2Model ----
(***************************************************************************)
(* Offline sale capture and reconciliation of the vape-kings point of      *)
(* sale: PosScreen.completeSale (capture), the 'offlineSales' slot of      *)
(* localStorage (the local queue), Dashboard.handleNewSale /               *)
(* handleUpdateStock / addAuditLog (remote submission), and                *)
(* Dashboard.syncOfflineSales with the connectivity effect (the drain).    *)
(*                                                                         *)
(* Every await of a supabase call is a yield point: the handler up to the  *)
(* await is one step, the continuation after the response is the next.     *)
(* A closure created by useCallback sees the stockLevels of the render     *)
(* that created it, so every running invocation carries its own snapshot.  *)
(***************************************************************************)
EXTENDS Integers, Sequences, FiniteSets, TLC

\* ------------------------------------------------------------------ bounds
Products == {"A", "B"}
InitStock == 1      \* quantity of every remote stock_levels row at start
MaxItems == 2       \* line items of all completed checkouts of one behaviour
MaxTasks == 2       \* invocations of syncOfflineSales / handleNewSale
MaxTimers == 1      \* setTimeout callbacks pending at one time
MaxClock == 1       \* last value of the clock

VARIABLES
    isOnline,         \* Dashboard state isOnline (follows navigator.onLine)
    hasOfflineSales,  \* Dashboard state hasOfflineSales
    stockLevels,      \* Dashboard state stockLevels: product_id -> quantity, [] before the first fetch
    offlineSales,     \* localStorage['offlineSales']: the stored carts; <<>> is the absent slot
    cart,             \* PosScreen state cart
    isPrinterEnabled, \* Dashboard state isPrinterEnabled
    isPrintModalOpen, \* PosScreen state isPrintModalOpen
    timers,           \* pending setTimeout(() => syncOfflineSales(), 2000), each with its closure's stockLevels
    tasks,            \* the running invocations of syncOfflineSales / handleNewSale
    started,          \* number of invocations started so far (history: names an invocation)
    remoteSales,      \* remote table sales: per captured cart, the number of accepted inserts of its rows
    remoteStock,      \* remote table stock_levels: product_id -> quantity
    remoteStockElsewhere, \* remote table stock_levels: the rows of another branch, product_id -> quantity
    remoteAudit,      \* remote table audit_logs: per cart the number of 'Sale' entries, at 0 the 'Sync Offline Sales' entries
    stockUpdates,     \* history of the remote: per cart and line, the number of accepted stock_levels updates
    now,              \* the clock that new Date() reads
    remoteDate,       \* remote table sales: per captured cart, the 'date' values of its accepted rows
    outcome,          \* what the last step showed the user or threw: the window.alert of completeSale
                      \* ("saved") or of syncOfflineSales ("synced"), an exception that left
                      \* completeSale ("uncaught"), the error alert of syncOfflineSales ("failed"), "none" otherwise
    captured          \* history: the completed checkouts in order, each with its cart and whether it was taken offline;
                      \* a cart carries its place in this list as id, in the queue and in an invocation

vars == << isOnline, hasOfflineSales, stockLevels, offlineSales, cart,
           isPrinterEnabled, isPrintModalOpen, timers, tasks, started,
           remoteSales, remoteStock, remoteStockElsewhere, remoteAudit, stockUpdates,
           now, remoteDate, outcome, captured >>

\* ------------------------------------------------------------------ helpers
NoRows == [p \in {} |-> 0]

SaleIds == 1..MaxItems
LineIds == 1..Cardinality(Products)

SeqIds(s) == { s[i].id : i \in 1..Len(s) }

\* cart.find(item => item.product.id === productId): index of the line, 0 when absent
CartIndex(c, p) ==
    IF \E i \in 1..Len(c) : c[i].product = p
    THEN CHOOSE i \in 1..Len(c) : c[i].product = p
    ELSE 0

\* cart.filter(item => item.product.id !== productId)
RECURSIVE CartWithout(_, _)
CartWithout(c, p) ==
    IF c = <<>> THEN <<>>
    ELSE IF Head(c).product = p THEN CartWithout(Tail(c), p)
    ELSE <<Head(c)>> \o CartWithout(Tail(c), p)

\* handleNewSale's loop: the first line at or after 'from' whose product has a
\* row in the closure's stockLevels (lines without a row are skipped), 0 when none
NextLine(lines, snap, from) ==
    IF \E j \in from..Len(lines) : lines[j].product \in DOMAIN snap
    THEN CHOOSE j \in from..Len(lines) :
            /\ lines[j].product \in DOMAIN snap
            /\ \A k \in from..(j-1) : lines[k].product \notin DOMAIN snap
    ELSE 0

\* the rows of a stockLevels array for the given products; an invocation only
\* ever looks up the products of its own carts
Rows(snap, ps) == [p \in (DOMAIN snap) \cap ps |-> snap[p]]

LineProducts(carts) ==
    UNION { { carts[k].lines[j].product : j \in 1..Len(carts[k].lines) } : k \in 1..Len(carts) }

Init ==
    /\ isOnline \in BOOLEAN
    /\ hasOfflineSales = FALSE
    /\ stockLevels = NoRows
    /\ offlineSales = <<>>
    /\ cart = <<>>
    /\ isPrinterEnabled = FALSE
    /\ isPrintModalOpen = FALSE
    /\ timers = <<>>
    /\ tasks = {}
    /\ started = 0
    /\ remoteSales = [s \in SaleIds |-> 0]
    /\ remoteStock = [p \in Products |-> InitStock]
    /\ remoteStockElsewhere = [p \in Products |-> InitStock]
    /\ remoteAudit = [s \in {0} \cup SaleIds |-> 0]
    /\ stockUpdates = [c \in SaleIds \X LineIds |-> 0]
    /\ now = 0
    /\ remoteDate = [s \in SaleIds |-> {}]
    /\ outcome = "none"
    /\ captured = <<>>

\* ------------------------------------------------------------------ PosScreen
\* the bound on completed line items: a cart that could not be checked out
\* any more is not built
RECURSIVE ItemsIn(_)
ItemsIn(sales) == IF sales = <<>> THEN 0 ELSE Len(Head(sales).lines) + ItemsIn(Tail(sales))

ItemsSold == ItemsIn(captured)

CanSell == ItemsSold + Len(cart) < MaxItems

\* productStockMap: the stock of a product is the quantity of its stockLevels
\* row, 0 when it has none
ProductStock(p) == IF p \in DOMAIN stockLevels THEN stockLevels[p] ELSE 0

\* a product is offered (search result, scan) when its stock is > 0
AddToCart(p) ==
    /\ ~isPrintModalOpen
    /\ CanSell
    /\ ProductStock(p) > 0
    /\ LET i == CartIndex(cart, p) IN
       cart' = IF i # 0
               THEN IF cart[i].quantity < ProductStock(p)
                    THEN [cart EXCEPT ![i].quantity = @ + 1]
                    ELSE cart
               ELSE Append(cart, [product |-> p, quantity |-> 1, stock |-> ProductStock(p)])
    /\ outcome' = "none"
    /\ UNCHANGED << now, remoteStockElsewhere, remoteDate, isOnline, hasOfflineSales, stockLevels, offlineSales,
                    isPrinterEnabled, isPrintModalOpen, timers, tasks, started,
                    remoteSales, remoteStock, remoteAudit, stockUpdates, captured >>

UpdateQuantity(p, q) ==
    /\ ~isPrintModalOpen
    /\ LET i == CartIndex(cart, p) IN
       /\ i # 0
       /\ cart' = IF q > 0 /\ q <= cart[i].stock
                  THEN [cart EXCEPT ![i].quantity = q]
                  ELSE cart
    /\ outcome' = "none"
    /\ UNCHANGED << now, remoteStockElsewhere, remoteDate, isOnline, hasOfflineSales, stockLevels, offlineSales,
                    isPrinterEnabled, isPrintModalOpen, timers, tasks, started,
                    remoteSales, remoteStock, remoteAudit, stockUpdates, captured >>

RemoveFromCart(p) ==
    /\ ~isPrintModalOpen
    /\ CartIndex(cart, p) # 0
    /\ cart' = CartWithout(cart, p)
    /\ outcome' = "none"
    /\ UNCHANGED << now, remoteStockElsewhere, remoteDate, isOnline, hasOfflineSales, stockLevels, offlineSales,
                    isPrinterEnabled, isPrintModalOpen, timers, tasks, started,
                    remoteSales, remoteStock, remoteAudit, stockUpdates, captured >>

\* ------------------------------------------------------------------ invocations
\* One running invocation of syncOfflineSales (kind "drain") or of
\* handleNewSale called by PosScreen (kind "sale").  pc names the supabase call
\* being awaited:
\*   "audit"  the 'Sync Offline Sales' audit insert of syncOfflineSales
\*   "insert" the sales insert for carts[idx]
\*   "stock"  the stock_levels update for line 'line' of carts[idx]
\* carts is offlineCarts (for a sale, the one cart), snap the stockLevels of
\* the closure.  live is FALSE once the page that started it was reloaded.
\* failedAt is history: the index of the first cart of this invocation for
\* which the remote rejected the insert or a stock update, 0 when none.
\* date is the 'date' that handleNewSale put into the rows of the insert it
\* is awaiting (salesToInsert is not used after that await), 0 otherwise.
DateOfInsert == now

NewTask(id, kind, carts, snap, pc, idx) ==
    [id |-> id, kind |-> kind, pc |-> pc, carts |-> carts, idx |-> idx, line |-> 0,
     snap |-> Rows(snap, LineProducts(carts)), live |-> TRUE, failedAt |-> 0,
     date |-> IF pc = "insert" THEN DateOfInsert ELSE 0]

\* JSON.stringify on write and JSON.parse on read of the slot.  The stored
\* text holds, per cart, the array of its items; of an item the product id is
\* kept as the string it is, the numbers (quantity, product.stock) are written
\* as decimal text and read back as the number that text denotes.
JsonNumber(n) == ToString(n)

NumberOf(text) == CHOOSE n \in 0..(InitStock + 1) : ToString(n) = text

StringifyItem(item) ==
    [product |-> item.product, quantity |-> JsonNumber(item.quantity), stock |-> JsonNumber(item.stock)]

ParseItem(t) ==
    [product |-> t.product, quantity |-> NumberOf(t.quantity), stock |-> NumberOf(t.stock)]

\* a write that keeps only the newest cart
StringifyNewest(carts) ==
    [k \in 1..1 |->
        [id |-> carts[Len(carts)].id,
         lines |-> [j \in 1..Len(carts[Len(carts)].lines) |-> StringifyItem(carts[Len(carts)].lines[j])]]]

Stringify(carts) ==
    [k \in 1..Len(carts) |->
        [id |-> carts[k].id,
         lines |-> [j \in 1..Len(carts[k].lines) |-> StringifyItem(carts[k].lines[j])]]]

Parse(raw) ==
    [k \in 1..Len(raw) |->
        [id |-> raw[k].id,
         lines |-> [j \in 1..Len(raw[k].lines) |-> ParseItem(raw[k].lines[j])]]]

\* a queue that puts the newest cart first
EnqueueFront(stored, sale) == Stringify(<<sale>> \o Parse(stored))

\* completeSale, offline branch: offlineSales.push(cart)
Enqueue(stored, sale) == Stringify(Append(Parse(stored), sale))

\* a capture that never takes the offline branch
CaptureAlwaysOnline == TRUE

\* completeSale's test of the isOnline prop
CaptureOnline == isOnline

\* a syncOfflineSales that goes on to its audit insert whatever the slot holds
SyncStartedAnyway(running, snap) ==
    running \cup {NewTask(started + 1, "drain", Parse(offlineSales), snap, "audit", 0)}

\* syncOfflineSales up to its first await: nothing when the slot is absent,
\* otherwise the queue is parsed and the 'Sync Offline Sales' audit insert issued
SyncStarted(running, snap) ==
    IF offlineSales = <<>>
    THEN running
    ELSE running \cup {NewTask(started + 1, "drain", Parse(offlineSales), snap, "audit", 0)}

CanSync == offlineSales = <<>> \/ started < MaxTasks

StartedAfterSync == IF offlineSales = <<>> THEN started ELSE started + 1

\* a checkout that empties the cart whether or not the sale was stored
CartAlwaysCleared(stored) == <<>>

\* completeSale, offline branch: setCart([]) is reached only when setItem returned
CartAfterSave(stored) == IF stored THEN <<>> ELSE cart

\* stored: whether localStorage.setItem takes the new text; when it throws
\* (the quota is exceeded) the exception leaves completeSale before the alert
\* and before setCart([]), and the slot keeps its old text
CompleteSale(stored) ==
    /\ ~isPrintModalOpen
    /\ cart # <<>>
    /\ ItemsSold + Len(cart) <= MaxItems
    /\ CaptureOnline => stored
    /\ LET sale == [id |-> Len(captured) + 1, lines |-> cart] IN
       IF CaptureOnline
       THEN /\ started < MaxTasks
            /\ tasks' = tasks \cup {NewTask(started + 1, "sale", <<sale>>, stockLevels, "insert", 1)}
            /\ started' = started + 1
            /\ IF isPrinterEnabled
               THEN isPrintModalOpen' = TRUE /\ cart' = cart
               ELSE isPrintModalOpen' = isPrintModalOpen /\ cart' = <<>>
            /\ offlineSales' = offlineSales
            /\ outcome' = "none"
       ELSE /\ offlineSales' = IF stored THEN Enqueue(offlineSales, sale) ELSE offlineSales
            /\ outcome' = IF stored THEN "saved" ELSE "uncaught"
            /\ cart' = CartAfterSave(stored)
            /\ UNCHANGED << tasks, started, isPrintModalOpen >>
    /\ captured' = IF stored
                   THEN Append(captured, [lines |-> cart, offline |-> ~CaptureOnline, time |-> now])
                   ELSE captured
    /\ UNCHANGED << now, remoteStockElsewhere, remoteDate, isOnline, hasOfflineSales, stockLevels, isPrinterEnabled, timers,
                    remoteSales, remoteStock, remoteAudit, stockUpdates >>

HandleClosePrintModal ==
    /\ isPrintModalOpen
    /\ isPrintModalOpen' = FALSE
    /\ cart' = <<>>
    /\ outcome' = "none"
    /\ UNCHANGED << now, remoteStockElsewhere, remoteDate, isOnline, hasOfflineSales, stockLevels, offlineSales,
                    isPrinterEnabled, timers, tasks, started,
                    remoteSales, remoteStock, remoteAudit, stockUpdates, captured >>

\* the switch lives on the Settings tab; PosScreen is unmounted while another
\* tab is shown, so its cart is the initial one when the user is back
HandleTogglePrinter ==
    /\ ~isPrintModalOpen
    /\ CanSell
    /\ cart = <<>>
    /\ isPrinterEnabled' = ~isPrinterEnabled
    /\ outcome' = "none"
    /\ UNCHANGED << now, remoteStockElsewhere, remoteDate, isOnline, hasOfflineSales, stockLevels, offlineSales, cart,
                    isPrintModalOpen, timers, tasks, started,
                    remoteSales, remoteStock, remoteAudit, stockUpdates, captured >>

\* ------------------------------------------------------------------ connectivity
\* window 'online': setIsOnline(true); setTimeout(() => syncOfflineSales(), 2000)
HandleOnline ==
    /\ ~isOnline
    /\ Len(timers) < MaxTimers
    /\ isOnline' = TRUE
    /\ timers' = Append(timers, stockLevels)
    /\ outcome' = "none"
    /\ UNCHANGED << now, remoteStockElsewhere, remoteDate, hasOfflineSales, stockLevels, offlineSales, cart,
                    isPrinterEnabled, isPrintModalOpen, tasks, started,
                    remoteSales, remoteStock, remoteAudit, stockUpdates, captured >>

\* window 'offline': setIsOnline(false)
HandleOffline ==
    /\ isOnline
    /\ isOnline' = FALSE
    /\ outcome' = "none"
    /\ UNCHANGED << now, remoteStockElsewhere, remoteDate, hasOfflineSales, stockLevels, offlineSales, cart,
                    isPrinterEnabled, isPrintModalOpen, timers, tasks, started,
                    remoteSales, remoteStock, remoteAudit, stockUpdates, captured >>

\* the 2000 ms timeout expires: syncOfflineSales() of the closure that set it
TimerFire ==
    /\ timers # <<>>
    /\ CanSync
    /\ tasks' = SyncStarted(tasks, Head(timers))
    /\ started' = StartedAfterSync
    /\ timers' = Tail(timers)
    /\ outcome' = "none"
    /\ UNCHANGED << now, remoteStockElsewhere, remoteDate, isOnline, hasOfflineSales, stockLevels, offlineSales, cart,
                    isPrinterEnabled, isPrintModalOpen,
                    remoteSales, remoteStock, remoteAudit, stockUpdates, captured >>

\* the 'Sync Offline Sales' button: rendered when hasOfflineSales, disabled when !isOnline
ManualSync ==
    /\ hasOfflineSales
    /\ isOnline
    /\ CanSync
    /\ tasks' = SyncStarted(tasks, stockLevels)
    /\ started' = StartedAfterSync
    /\ outcome' = "none"
    /\ UNCHANGED << now, remoteStockElsewhere, remoteDate, isOnline, hasOfflineSales, stockLevels, offlineSales, cart,
                    isPrinterEnabled, isPrintModalOpen, timers,
                    remoteSales, remoteStock, remoteAudit, stockUpdates, captured >>

\* checkOfflineSales: the slot holds a non-empty array
CheckOfflineSales == Len(Parse(offlineSales)) > 0

\* A fetchData() (started on mount, by any realtime change, or by a finished
\* drain) returns: setStockLevels gives a new array, which recreates
\* handleNewSale and syncOfflineSales, so the connectivity effect runs again:
\* checkOfflineSales(), and syncOfflineSales() when navigator.onLine.
\* select('*') returns the stock_levels rows of every branch, and
\* stockLevels.find(s => s.product_id === id) takes the first row of the
\* product: ownFirst says, per product, whether that is the row of the user's
\* branch.
Fetched(ownFirst) ==
    [p \in Products |-> IF ownFirst[p] THEN remoteStock[p] ELSE remoteStockElsewhere[p]]

FetchData(ownFirst) ==
    /\ isOnline
    /\ CanSync
    /\ stockLevels' = Fetched(ownFirst)
    /\ hasOfflineSales' = CheckOfflineSales
    /\ tasks' = SyncStarted(tasks, Fetched(ownFirst))
    /\ started' = StartedAfterSync
    /\ outcome' = "none"
    /\ UNCHANGED << now, remoteStockElsewhere, remoteDate, isOnline, offlineSales, cart, isPrinterEnabled, isPrintModalOpen,
                    timers, remoteSales, remoteStock, remoteAudit,
                    stockUpdates, captured >>

\* The page is reloaded (or closed and opened again): React state starts over,
\* localStorage and the remote stay, pending timeouts are gone.  A request that
\* is in flight may still reach the remote, but nothing runs after it.  The
\* mount effect then runs with the first render's closures (stockLevels = []):
\* checkOfflineSales(), and syncOfflineSales() when navigator.onLine.
Detached(tk) == [tk EXCEPT !.live = FALSE]

\* a mount effect that never starts a drain
MountSyncNever(running) == running

\* the connectivity effect on mount: if (navigator.onLine) syncOfflineSales()
MountSync(running) == IF isOnline THEN SyncStarted(running, NoRows) ELSE running

Reload ==
    /\ isOnline => CanSync
    /\ tasks' = MountSync({ Detached(tk) : tk \in tasks })
    /\ started' = IF isOnline THEN StartedAfterSync ELSE started
    /\ hasOfflineSales' = CheckOfflineSales
    /\ stockLevels' = NoRows
    /\ cart' = <<>>
    /\ isPrinterEnabled' = FALSE
    /\ isPrintModalOpen' = FALSE
    /\ timers' = <<>>
    /\ outcome' = "none"
    /\ UNCHANGED << now, remoteStockElsewhere, remoteDate, isOnline, offlineSales, remoteSales, remoteStock, remoteAudit,
                    stockUpdates, captured >>

\* ------------------------------------------------------------------ remote submission
\* Where an invocation goes when its current cart is done (handleNewSale
\* returned): a drain's "for (const cart of offlineCarts)" takes the next cart
\* and issues its insert; after the last cart the loop is left.
NextCart(tk) ==
    IF tk.kind = "drain" /\ tk.idx < Len(tk.carts)
    THEN [tk EXCEPT !.pc = "insert", !.idx = @ + 1, !.line = 0, !.date = DateOfInsert]
    ELSE [tk EXCEPT !.pc = "done", !.line = 0, !.date = 0]

\* handleNewSale after a line: the update for the next line that has a row is
\* issued (j), or the cart is done (j = 0)
AfterLine(tk, j) ==
    IF j # 0 THEN [tk EXCEPT !.pc = "stock", !.line = j, !.date = 0] ELSE NextCart(tk)

\* history: the remote rejected a write of the current cart
Failed(tk) == [tk EXCEPT !.failedAt = IF @ = 0 THEN tk.idx ELSE @]

\* a handleNewSale that goes on to the stock updates after a rejected insert
AfterInsertErrorGoesOn(tk) ==
    AfterLine(Failed(tk), NextLine(tk.carts[tk.idx].lines, tk.snap, 1))

\* handleNewSale when the sales insert came back with an error: console.error
\* and return, which the caller cannot tell from a success
AfterInsertError(tk) == NextCart(Failed(tk))

\* handleUpdateStock: update({ quantity: newQuantity }) with
\* newQuantity = currentStock.quantity - item.quantity from the closure's stockLevels
NewQuantity(snap, item) == snap[item.product] - item.quantity

\* a drain that takes each sale out of the stored queue as soon as it is done
SettlePiecewise(tk, new) ==
    IF ~tk.live
    THEN /\ tasks' = tasks \ {tk}
         /\ outcome' = "none"
         /\ UNCHANGED << offlineSales, hasOfflineSales >>
    ELSE IF new.pc # "done"
    THEN /\ tasks' = (tasks \ {tk}) \cup {new}
         /\ outcome' = "none"
         /\ offlineSales' = IF tk.kind = "drain" /\ new.idx > tk.idx /\ tk.idx > 0 /\ offlineSales # <<>>
                            THEN Tail(offlineSales)
                            ELSE offlineSales
         /\ UNCHANGED hasOfflineSales
    ELSE /\ tasks' = tasks \ {tk}
         /\ IF tk.kind = "drain"
            THEN /\ offlineSales' = <<>>
                 /\ hasOfflineSales' = FALSE
                 /\ outcome' = "synced"
            ELSE /\ outcome' = "none"
                 /\ UNCHANGED << offlineSales, hasOfflineSales >>

\* The continuation 'new' of invocation tk has run.  When it left the loop of
\* syncOfflineSales: localStorage.removeItem('offlineSales'); checkOfflineSales()
\* (and fetchData(), whose return is FetchData).  A finished invocation is
\* dropped; one whose page was reloaded has no continuation at all.
Settle(tk, new) ==
    IF ~tk.live
    THEN /\ tasks' = tasks \ {tk}
         /\ outcome' = "none"
         /\ UNCHANGED << offlineSales, hasOfflineSales >>
    ELSE IF new.pc # "done"
    THEN /\ tasks' = (tasks \ {tk}) \cup {new}
         /\ outcome' = "none"
         /\ UNCHANGED << offlineSales, hasOfflineSales >>
    ELSE /\ tasks' = tasks \ {tk}
         /\ IF tk.kind = "drain"
            THEN /\ offlineSales' = <<>>
                 /\ hasOfflineSales' = FALSE
                 /\ outcome' = "synced"
            ELSE /\ outcome' = "none"
                 /\ UNCHANGED << offlineSales, hasOfflineSales >>

\* a drain that gives up when its audit insert was rejected
AfterDrainAuditStops(tk, ok) == IF ok THEN NextCart(tk) ELSE [tk EXCEPT !.pc = "done"]

\* addAuditLog: an insert error is logged to the console and nothing is
\* returned or thrown, so syncOfflineSales goes on to its loop either way
AfterDrainAudit(tk, ok) == NextCart(tk)

\* the awaited addAuditLog('Sync Offline Sales', ...) of a drain returns; an
\* error is only logged, and the loop takes the first cart
DrainAuditResp(tk, ok) ==
    /\ tk \in tasks
    /\ tk.pc = "audit"
    /\ ok => isOnline
    /\ remoteAudit' = IF ok THEN [remoteAudit EXCEPT ![0] = @ + 1] ELSE remoteAudit
    /\ Settle(tk, AfterDrainAudit(tk, ok))
    /\ UNCHANGED << now, remoteStockElsewhere, remoteDate, isOnline, stockLevels, cart, isPrinterEnabled, isPrintModalOpen,
                    timers, started, remoteSales, remoteStock, stockUpdates,
                    captured >>

\* the sales insert of handleNewSale returns
InsertResp(tk, ok) ==
    /\ tk \in tasks
    /\ tk.pc = "insert"
    /\ ok => isOnline
    /\ LET sale == tk.carts[tk.idx] IN
       /\ remoteSales' = IF ok THEN [remoteSales EXCEPT ![sale.id] = @ + 1] ELSE remoteSales
       /\ remoteDate' = IF ok THEN [remoteDate EXCEPT ![sale.id] = @ \cup {tk.date}] ELSE remoteDate
       /\ Settle(tk, IF ok
                     THEN AfterLine(tk, NextLine(sale.lines, tk.snap, 1))
                     ELSE AfterInsertError(tk))
    /\ UNCHANGED << now, remoteStockElsewhere, isOnline, stockLevels, cart, isPrinterEnabled, isPrintModalOpen,
                    timers, started, remoteStock, remoteAudit, stockUpdates,
                    captured >>

\* update({ quantity }).eq('product_id', productId) on rows of another branch:
\* the filter names the product only, so the row of that product is written
UpdatedWhereProduct(rows, productId, quantity) == [rows EXCEPT ![productId] = quantity]

\* a catch block that drops the stored queue
CaughtClearing ==
    /\ outcome' = "failed"
    /\ offlineSales' = <<>>
    /\ hasOfflineSales' = FALSE

\* syncOfflineSales, catch (error): console.error and the alert 'There was an
\* error syncing offline sales. They have been kept for the next attempt.'
Caught ==
    /\ outcome' = "failed"
    /\ UNCHANGED << offlineSales, hasOfflineSales >>

\* The call that invocation tk awaits throws instead of returning { error }.
\* Neither addAuditLog, handleUpdateStock nor handleNewSale catches, so the
\* exception leaves the invocation: in syncOfflineSales it reaches the catch
\* block; a handleNewSale started by completeSale was not awaited and its
\* promise is rejected with nobody listening.
Throw(tk) ==
    /\ tk \in tasks
    /\ tk.live
    /\ tasks' = tasks \ {tk}
    /\ IF tk.kind = "drain"
       THEN Caught
       ELSE /\ outcome' = "none"
            /\ UNCHANGED << offlineSales, hasOfflineSales >>
    /\ UNCHANGED << now, remoteStockElsewhere, remoteDate, isOnline, stockLevels, cart,
                    isPrinterEnabled, isPrintModalOpen, timers, started,
                    remoteSales, remoteStock, remoteAudit, stockUpdates, captured >>

\* the stock_levels update of handleUpdateStock returns: on success
\* addAuditLog('Sale', ...) is called and not awaited (aok: whether the remote
\* accepts that insert), on error console.error; either way handleNewSale
\* goes on with the next line
StockResp(tk, ok, aok) ==
    /\ tk \in tasks
    /\ tk.pc = "stock"
    /\ ok => isOnline
    /\ aok => ok /\ tk.live
    /\ LET sale == tk.carts[tk.idx]
           item == sale.lines[tk.line]
       IN
       /\ remoteStock' = IF ok
                         THEN [remoteStock EXCEPT ![item.product] = NewQuantity(tk.snap, item)]
                         ELSE remoteStock
       /\ remoteStockElsewhere' = IF ok
                                  THEN UpdatedWhereProduct(remoteStockElsewhere, item.product,
                                                           NewQuantity(tk.snap, item))
                                  ELSE remoteStockElsewhere
       /\ stockUpdates' = IF ok
                          THEN [stockUpdates EXCEPT ![<<sale.id, tk.line>>] = @ + 1]
                          ELSE stockUpdates
       /\ remoteAudit' = IF aok THEN [remoteAudit EXCEPT ![sale.id] = @ + 1] ELSE remoteAudit
       /\ Settle(tk, AfterLine(IF ok THEN tk ELSE Failed(tk),
                               NextLine(sale.lines, tk.snap, tk.line + 1)))
    /\ UNCHANGED << now, remoteDate, isOnline, stockLevels, cart, isPrinterEnabled, isPrintModalOpen,
                    timers, started, remoteSales, captured >>

Next ==
    \/ \E p \in Products : AddToCart(p)
    \/ \E p \in Products, q \in 0..(InitStock + 1) : UpdateQuantity(p, q)
    \/ \E p \in Products : RemoveFromCart(p)
    \/ \E stored \in BOOLEAN : CompleteSale(stored)
    \/ HandleClosePrintModal
    \/ HandleTogglePrinter
    \/ HandleOnline
    \/ HandleOffline
    \/ TimerFire
    \/ ManualSync
    \/ \E ownFirst \in [Products -> BOOLEAN] : FetchData(ownFirst)
    \/ Reload
    \/ \E tk \in tasks, ok \in BOOLEAN : DrainAuditResp(tk, ok)
    \/ \E tk \in tasks, ok \in BOOLEAN : InsertResp(tk, ok)
    \/ \E tk \in tasks, ok \in BOOLEAN, aok \in BOOLEAN : StockResp(tk, ok, aok)
    \/ \E tk \in tasks : Throw(tk)

Spec == Init /\ [][Next]_vars

\* time passes; the clock is read only for the date of an insert, so it is
\* advanced only between the last capture and a drain: while a captured sale
\* waits in the stored queue and no invocation is running
Tick ==
    /\ now < MaxClock
    /\ Len(captured) = MaxItems
    /\ offlineSales # <<>>
    /\ tasks = {}
    /\ now' = now + 1
    /\ outcome' = "none"
    /\ UNCHANGED << isOnline, hasOfflineSales, stockLevels, offlineSales, cart,
                    isPrinterEnabled, isPrintModalOpen, timers, tasks, started,
                    remoteSales, remoteStock, remoteStockElsewhere, remoteAudit,
                    stockUpdates, remoteDate, captured >>

NextTimed ==
    \/ Next
    \/ Tick

\* the same program with a clock that advances
TimedSpec == Init /\ [][NextTimed]_vars

\* ------------------------------------------------------------------ properties
QueueIds == SeqIds(offlineSales)

OfflineIds == { s \in 1..Len(captured) : captured[s].offline }

\* the lines of captured cart s, as indices
LinesOf(s) == 1..Len(captured[s].lines)

\* the invocations whose continuations still run
LiveDrains == { tk \in tasks : tk.kind = "drain" /\ tk.live }

\* invocation tk has no successor in the next state: this step was its last
Gone(tk) == \A u \in tasks' : u.id # tk.id

\* invocation tk took this step (its record changed or went away)
Stepped(tk) == tk \notin tasks'

\* this step was a response that the remote accepted for a sale insert or a stock update
WriteAccepted == remoteSales' # remoteSales \/ stockUpdates' # stockUpdates

\* quantity of product p over the lines of the carts
RECURSIVE QtyInLines(_, _)
QtyInLines(lines, p) ==
    IF lines = <<>> THEN 0
    ELSE (IF Head(lines).product = p THEN Head(lines).quantity ELSE 0) + QtyInLines(Tail(lines), p)

RECURSIVE QtyInCarts(_, _)
QtyInCarts(carts, p) ==
    IF carts = <<>> THEN 0
    ELSE QtyInLines(Head(carts).lines, p) + QtyInCarts(Tail(carts), p)

\* C1: every sale captured offline gets at most one accepted sale insert and at
\* most one accepted stock update per line, and exactly one of each once it is
\* no longer in the queue.
C1_ExactlyOnceReplay ==
    \A s \in OfflineIds :
        /\ remoteSales[s] <= 1
        /\ \A l \in LinesOf(s) : stockUpdates[<<s, l>>] <= 1
        /\ s \notin QueueIds =>
              /\ remoteSales[s] = 1
              /\ \A l \in LinesOf(s) : stockUpdates[<<s, l>>] = 1

\* C2: a step that takes a sale out of the stored queue finds its sale insert
\* and a stock update for each of its lines accepted by the remote.
C2_RemovedOnlyWhenConfirmed ==
    [][ \A s \in QueueIds \ SeqIds(offlineSales') :
            /\ remoteSales'[s] >= 1
            /\ \A l \in LinesOf(s) : stockUpdates'[<<s, l>>] >= 1 ]_vars

\* C3: when the only invocation there ever was is a drain, and the remote
\* accepted every write of it, the drain ends with every remote quantity at its
\* initial value minus the quantities of that product in the replayed carts.
C3_StockAfterDrain ==
    [][ \A tk \in LiveDrains :
            (started = 1 /\ tk.failedAt = 0 /\ Gone(tk) /\ WriteAccepted)
            => \A p \in Products :
                  remoteStock'[p] = InitStock - QtyInCarts(tk.carts, p) ]_vars

\* C4: once the remote has rejected a write for cart K of a drain, the drain
\* issues no insert for a later cart, and when it ends carts K.. are still in
\* the stored queue.
C4_StopOnFirstFailure ==
    [][ /\ \A tk \in { u \in tasks' : u.kind = "drain" } :
              tk.failedAt # 0 => tk.idx <= tk.failedAt
        /\ \A tk \in LiveDrains :
              (Gone(tk) /\ outcome' # "failed" /\ (tk.failedAt # 0 \/ ~WriteAccepted))
              => LET K == IF tk.failedAt # 0 THEN tk.failedAt ELSE tk.idx IN
                 \A j \in K..Len(tk.carts) : tk.carts[j].id \in SeqIds(offlineSales') ]_vars

\* C5: a sale captured offline whose insert the remote has not accepted yet is
\* still in the stored queue, where the next drain finds it (what a retry
\* after a failed drain needs).
C5_FailedSalesStayForRetry ==
    \A s \in OfflineIds : remoteSales[s] = 0 => s \in QueueIds

\* C6: in a drain for which the remote accepts every write, the carts are
\* replayed in capture order, the insert for a cart is issued only when the
\* insert and the stock updates of every earlier cart have been accepted, and
\* the drain ends with the queue empty and every cart's insert accepted.
Submitted(tk, j) ==
    /\ remoteSales[tk.carts[j].id] >= 1
    /\ \A l \in 1..Len(tk.carts[j].lines) :
          tk.carts[j].lines[l].product \in DOMAIN tk.snap
          => stockUpdates[<<tk.carts[j].id, l>>] >= 1

C6_InOrderDrain ==
    [][ \A tk \in LiveDrains :
          tk.failedAt = 0 =>
            /\ \A j, k \in 1..Len(tk.carts) : j < k => tk.carts[j].id < tk.carts[k].id
            /\ tk.pc = "insert" => \A j \in 1..(tk.idx - 1) : Submitted(tk, j)
            /\ (Gone(tk) /\ WriteAccepted) =>
                  /\ offlineSales' = <<>>
                  /\ \A j \in 1..Len(tk.carts) : remoteSales'[tk.carts[j].id] >= 1 ]_vars

\* a drain of two queued sales has run alone, every write accepted, and is over
C6_Witness ==
    /\ Len(captured) = 2
    /\ OfflineIds = {1, 2}
    /\ started = 1
    /\ tasks = {}
    /\ offlineSales = <<>>
    /\ \A s \in {1, 2} : remoteSales[s] = 1 /\ stockUpdates[<<s, 1>>] = 1

\* C7: at most one drain is replaying the queue at any time.
C7_OneDrainAtATime == Cardinality(LiveDrains) <= 1

\* C8: a checkout taken while isOnline is false appends the cart to the stored
\* queue and starts no remote call; one taken while isOnline is true issues the
\* sale insert at once and leaves the queue alone; nothing else appends to the queue.
IsCapture == Len(captured') = Len(captured) + 1

C8_CaptureDecision ==
    [][ /\ IsCapture =>
              LET s == Len(captured') IN
              IF isOnline
              THEN /\ offlineSales' = offlineSales
                   /\ \E tk \in tasks' \ tasks :
                         /\ tk.kind = "sale" /\ tk.pc = "insert"
                         /\ tk.carts = << [id |-> s, lines |-> cart] >>
              ELSE /\ Parse(offlineSales') = Append(Parse(offlineSales), [id |-> s, lines |-> cart])
                   /\ tasks' = tasks
                   /\ started' = started
                   /\ remoteSales' = remoteSales
        /\ Len(offlineSales') > Len(offlineSales) => IsCapture /\ ~isOnline ]_vars

\* one sale sits in the queue with no invocation for it, another was handed
\* to handleNewSale and is not in the queue
C8_Witness ==
    \E s1, s2 \in 1..Len(captured) :
        /\ captured[s1].offline /\ s1 \in QueueIds /\ tasks # {}
        /\ \A tk \in tasks : tk.kind = "sale" /\ tk.carts[1].id = s2
        /\ ~captured[s2].offline /\ s2 \notin QueueIds

\* C9: a sale completed online that no invocation is submitting any more is
\* either inserted remotely or in the stored queue.
C9_OnlineFailureIsQueued ==
    \A s \in 1..Len(captured) :
        (~captured[s].offline /\ \A tk \in tasks : tk.kind = "sale" => tk.carts[1].id # s)
        => (remoteSales[s] >= 1 \/ s \in QueueIds)

\* C10: when completeSale or handleClosePrintModal empties the cart, the sale
\* just completed is inserted remotely or stored in the queue.
C10_CartClearedAfterDisposition ==
    [][ (/\ cart # <<>> /\ cart' = <<>>
         /\ \/ IsCapture
            \/ isPrintModalOpen /\ ~isPrintModalOpen' /\ stockLevels' = stockLevels)
        => LET s == Len(captured') IN
           remoteSales'[s] >= 1 \/ s \in SeqIds(offlineSales') ]_vars

\* C11: when the write of the 'offlineSales' slot throws during an offline
\* checkout, the cart is left as it was and so is the stored queue; the cart is
\* emptied by an offline checkout only together with the append to the queue.
C11_FailedWriteKeepsCart ==
    [][ /\ outcome' = "uncaught" =>
              /\ cart # <<>> /\ cart' = cart
              /\ offlineSales' = offlineSales
        /\ (IsCapture /\ ~isOnline) =>
              /\ cart' = <<>>
              /\ Len(offlineSales') = Len(offlineSales) + 1 ]_vars

\* an offline checkout has just thrown with one sale already queued: the cart
\* is still filled and the queue still holds that one sale
C11_Witness ==
    /\ outcome = "uncaught"
    /\ ~isOnline
    /\ cart # <<>>
    /\ Len(offlineSales) = 1
    /\ Len(captured) = 1

\* the checkouts taken offline, in capture order, each with its place in the
\* list of all checkouts and its line items
OfflineCaptured ==
    LET all == [s \in 1..Len(captured) |->
                   [id |-> s, lines |-> captured[s].lines, offline |-> captured[s].offline]]
        off == SelectSeq(all, LAMBDA r : r.offline)
    IN [k \in 1..Len(off) |-> [id |-> off[k].id, lines |-> off[k].lines]]

\* no syncOfflineSales has read a non-empty queue so far: every invocation
\* started was the handleNewSale of an online checkout
NoDrainYet == started = Len(captured) - Len(OfflineCaptured)

\* C12: as long as no drain was started, the stored queue read back holds
\* exactly the sales captured offline, in capture order and with their line
\* items; and a reload of the page leaves the stored queue as it is.
C12_QueueHoldsOfflineCaptures ==
    [][ /\ NoDrainYet' => Parse(offlineSales') = OfflineCaptured'
        /\ offlineSales' # offlineSales => ~Reload ]_vars

\* two sales were captured offline, no drain was started, and the page has
\* been reloaded since: the queue read back still holds the two
C12_Witness ==
    /\ ~isOnline
    /\ NoDrainYet
    /\ Len(OfflineCaptured) = 2
    /\ Len(Parse(offlineSales)) = 2
    /\ stockLevels = NoRows
    /\ hasOfflineSales

\* C13: the stock figure that the point of sale shows and enforces for a
\* product is the quantity of the last fetched stock_levels row minus the
\* quantities of that product in the sales waiting in the stored queue.
C13_ProjectedStock ==
    \A p \in DOMAIN stockLevels :
        ProductStock(p) = stockLevels[p] - QtyInCarts(Parse(offlineSales), p)

\* C14: while the stored queue is absent or empty, no step starts a replay
\* (no new invocation of the drain appears, so no audit insert, sale insert or
\* stock update is issued), a step that leaves the running invocations alone
\* changes no remote table, and the queue stays empty unless a sale is captured.
C14_EmptyDrainIsNoOp ==
    [][ Len(Parse(offlineSales)) = 0 =>
          /\ \A tk \in tasks' : tk.kind = "drain" => \E u \in tasks : u.id = tk.id
          /\ tasks' = tasks =>
                UNCHANGED << remoteSales, remoteStock, remoteAudit, stockUpdates >>
          /\ ~IsCapture => offlineSales' = <<>> /\ ~hasOfflineSales' ]_vars

\* fetchData has returned online with nothing ever captured: the effect ran
\* syncOfflineSales on the absent slot, and no invocation was started
C14_Witness ==
    /\ isOnline
    /\ stockLevels # NoRows
    /\ captured = <<>>
    /\ offlineSales = <<>>
    /\ started = 0
    /\ tasks = {}
    /\ remoteAudit[0] = 0

\* C15: a drain shows 'Offline sales have been successfully synced!' (and
\* removes the queue) only when the remote accepted every write of every
\* replayed sale.
C15_SuccessOnlyIfAllSubmitted ==
    [][ outcome' = "synced" =>
          \A tk \in LiveDrains :
              Gone(tk) =>
                /\ tk.failedAt = 0
                /\ WriteAccepted
                /\ \A j \in 1..Len(tk.carts) : remoteSales'[tk.carts[j].id] >= 1 ]_vars

\* C16: every quantity of the remote stock_levels table is at least 0.
C16_StockNonNegative == \A p \in Products : remoteStock[p] >= 0

\* C17: a sale that was appended to the stored queue after a drain had read
\* it is, when that drain ends, still in the stored queue or inserted remotely.
C17_AppendSurvivesClear ==
    [][ \A tk \in LiveDrains :
          Gone(tk) =>
            \A s \in QueueIds \ SeqIds(tk.carts) :
                s \in SeqIds(offlineSales') \/ remoteSales'[s] >= 1 ]_vars

\* the invocations of handleNewSale that completeSale started and that still run
LiveSales == { tk \in tasks : tk.kind = "sale" /\ tk.live }

\* C18: at most one online checkout is being submitted at a time; and when
\* every checkout was taken online, none is being submitted any more, and the
\* remote accepted the insert and one stock update per line of each, every
\* remote quantity is its initial value minus the quantities sold of it.
C18_CapturesSerialized ==
    /\ Cardinality(LiveSales) <= 1
    /\ (/\ tasks = {}
        /\ OfflineIds = {}
        /\ \A s \in 1..Len(captured) :
              /\ remoteSales[s] = 1
              /\ \A l \in LinesOf(s) : stockUpdates[<<s, l>>] = 1)
       => \A p \in Products : remoteStock[p] = InitStock - QtyInCarts(captured, p)

\* this step was the response to the call that invocation tk was awaiting (a
\* reload changes the record too, but only marks it as detached)
Answered(tk) == Stepped(tk) /\ \A u \in tasks' : u.id = tk.id => u.live = tk.live

C20_PartialFailureReported ==
    [][ /\ \A tk \in tasks :
              (tk.pc = "stock" /\ Answered(tk) /\ stockUpdates' = stockUpdates)
              => remoteStock' = remoteStock
        /\ \A tk \in LiveDrains :
              Gone(tk) =>
                LET K == IF tk.failedAt # 0 THEN tk.failedAt
                         ELSE IF tk.pc = "stock" /\ stockUpdates' = stockUpdates THEN tk.idx
                         ELSE 0
                IN (K # 0 /\ remoteSales'[tk.carts[K].id] >= 1)
                   => /\ outcome' # "synced"
                      /\ tk.carts[K].id \in SeqIds(offlineSales') ]_vars

\* C21: a rejected audit insert fails nothing.  When the 'Sync Offline Sales'
\* insert of a drain is rejected, the drain goes on to the insert of its first
\* sale with no failure recorded.  When a stock update is accepted and the
\* 'Sale' audit insert after it is rejected, the quantity written and the sale
\* rows stay, no failure is recorded, and the invocation goes on with the next
\* line or the next sale, or ends as a drain does after its last sale.
C21_AuditFailureFailsNothing ==
    [][ \A tk \in tasks :
          /\ (/\ tk.pc = "audit" /\ tk.live /\ Answered(tk)
              /\ remoteAudit' = remoteAudit /\ outcome' # "failed")
             => /\ \E u \in tasks' :
                      /\ u.id = tk.id /\ u.pc = "insert" /\ u.idx = 1
                      /\ u.failedAt = 0
                /\ UNCHANGED << remoteSales, remoteStock, stockUpdates, offlineSales >>
          /\ (/\ tk.pc = "stock" /\ tk.live /\ Answered(tk)
              /\ stockUpdates' # stockUpdates /\ remoteAudit' = remoteAudit)
             => LET item == tk.carts[tk.idx].lines[tk.line] IN
                /\ remoteStock'[item.product] = NewQuantity(tk.snap, item)
                /\ remoteSales' = remoteSales
                /\ \A u \in tasks' :
                      u.id = tk.id =>
                        /\ u.failedAt = tk.failedAt
                        /\ \/ u.pc = "stock" /\ u.idx = tk.idx /\ u.line > tk.line
                           \/ u.pc = "insert" /\ u.idx = tk.idx + 1
                /\ (Gone(tk) /\ tk.kind = "drain") =>
                      offlineSales' = <<>> /\ outcome' = "synced" ]_vars

\* a drain of two queued sales has run alone and is over: both audit inserts
\* of the first kind and every 'Sale' audit insert were rejected, and yet both
\* sales have their rows and their stock updates
C21_Witness ==
    /\ OfflineIds = {1, 2}
    /\ started = 1
    /\ tasks = {}
    /\ offlineSales = <<>>
    /\ \A s \in {0, 1, 2} : remoteAudit[s] = 0
    /\ \A s \in {1, 2} : remoteSales[s] = 1 /\ stockUpdates[<<s, 1>>] = 1

\* C22: the audit log gets at most one entry per sale, whatever its number of
\* lines, and none for an operation on the queue (such as starting a drain).
C22_OneAuditPerSale ==
    /\ remoteAudit[0] = 0
    /\ \A s \in SaleIds : remoteAudit[s] <= 1

\* C23: a replay of the queue is started by the timeout of an online edge
\* only when the device is still online at that moment; after a flap (online
\* and offline again within the 2 seconds) no replay starts.
C23_DebouncedDrain ==
    [][ (\E tk \in tasks' : tk.kind = "drain" /\ \A u \in tasks : u.id # tk.id)
        => isOnline ]_vars

\* C24: the rows that the remote accepted for a sale captured offline carry
\* the time of its capture as their date.
C24_SaleFixedAtCapture ==
    \A s \in OfflineIds : remoteDate[s] \subseteq {captured[s].time}

C27_IndicatorTracksQueue ==
    tasks = {} => (hasOfflineSales <=> Len(Parse(offlineSales)) > 0)

\* C28: a step changes the stock_levels row of a product only when it answers
\* the update for a line with that product, and it changes no row of another
\* branch.
C28_StockDecrementFrame ==
    [][ /\ remoteStockElsewhere' = remoteStockElsewhere
        /\ \A p \in Products :
              remoteStock'[p] # remoteStock[p]
              => \E tk \in tasks :
                    /\ tk.pc = "stock" /\ Answered(tk)
                    /\ tk.carts[tk.idx].lines[tk.line].product = p ]_vars

\* offline, with no timeout pending and nothing of this page running
Quiet == ~isOnline /\ timers = <<>> /\ \A tk \in tasks : ~tk.live

\* C29: a mount while online with a non-empty stored queue starts a drain of
\* the whole queue in the same step, with no timeout involved; a mount while
\* offline starts nothing and leaves nothing pending; and from there, as long
\* as the page stays offline, no step starts an invocation or a timeout.
C29_DrainAtMount ==
    [][ /\ (stockLevels' = NoRows /\ timers' = <<>> /\ Reload)
           => IF isOnline
              THEN offlineSales # <<>>
                   => \E u \in tasks' :
                         /\ u.live /\ u.kind = "drain" /\ u.pc = "audit"
                         /\ u.id = started + 1
                         /\ u.carts = Parse(offlineSales)
              ELSE Quiet' /\ started' = started
        /\ (Quiet /\ ~isOnline') => (Quiet' /\ started' = started) ]_vars

\* the page was mounted online over a stored queue of two sales while the
\* requests of the page before it were still in flight: the drain of the
\* mount is at its first call, with the first render's empty stockLevels
C29_Witness ==
    /\ isOnline
    /\ timers = <<>>
    /\ stockLevels = NoRows
    /\ Len(Parse(offlineSales)) = 2
    /\ \E tk, u \in tasks :
          /\ ~tk.live
          /\ u.live /\ u.kind = "drain" /\ u.pc = "audit" /\ u.snap = NoRows
          /\ u.carts = Parse(offlineSales)
    /\ \A tk \in tasks : tk.live => tk.pc = "audit"

\* C30: when an exception ends a running drain (it goes away without the
\* success alert), the error alert is shown, the stored queue and
\* hasOfflineSales are what they were before the step, and no remote table
\* changes in the step.
C30_AbortKeepsQueue ==
    [][ /\ \A tk \in tasks :
              (tk.live /\ tk.kind = "drain" /\ Gone(tk) /\ outcome' # "synced")
              => /\ outcome' = "failed"
                 /\ offlineSales' = offlineSales
                 /\ hasOfflineSales' = hasOfflineSales
                 /\ UNCHANGED << remoteSales, remoteStock, remoteAudit, stockUpdates >>
        /\ outcome' = "failed"
           => /\ offlineSales' = offlineSales
              /\ hasOfflineSales' = hasOfflineSales ]_vars

\* a drain of two queued sales was ended by an exception after the remote had
\* accepted the first sale: the error alert is up, the queue still holds both
\* sales and hasOfflineSales is still true
C30_Witness ==
    /\ outcome = "failed"
    /\ hasOfflineSales
    /\ Len(Parse(offlineSales)) = 2
    /\ remoteSales[Parse(offlineSales)[1].id] >= 1
    /\ tasks = {}
====
